---- MODULE Spec2Model ----
(***************************************************************************)
(* Weighted K-means with K-means++ seeding (src/kmeans/kmeans.py).         *)
(*                                                                         *)
(* Numbers.  Points have integer coordinates.  A centroid row is the       *)
(* rational vector num/den, kept in lowest terms; den = 0 is the row of    *)
(* NaN that 0/0 produces.  A Euclidean distance is sqrt(sq)/den, kept as   *)
(* the pair (sq, den); comparisons of distances are exact, sums of         *)
(* distances use a fixed-point square root.  A uniform draw of [0,1) is    *)
(* the rational n/d.  Indices and labels are 0-based as in the source;     *)
(* sequences are 1-based, so row k of an array is element k+1.             *)
(*                                                                         *)
(* run is the call under study.  twin is the same call, fed the same       *)
(* random draws, on the weight vector in which an all-zero input is        *)
(* replaced by all ones (a self-composition, used for the zero-weight      *)
(* equivalence).                                                           *)
(***************************************************************************)
EXTENDS Integers, Sequences, FiniteSets, TLC

MaxN == 2
MaxK == 2
MaxCoord == 1
MaxWeight == 1
MaxIter == 2
MaxScore == 3

SqrtScale == 1000
AtolInv == 100000000
RtolOverAtol == 1000

VARIABLES X, weights, n_clusters, max_iter, run, twin, sample

vars == <<X, weights, n_clusters, max_iter, run, twin, sample>>

n_samples == Len(X)
n_features == Len(X[1])

(* ---------------------------- arithmetic ------------------------------ *)

Abs(a) == IF a < 0 THEN -a ELSE a

RECURSIVE GCD(_, _)
GCD(a, b) == IF b = 0 THEN a ELSE GCD(b, a % b)

RECURSIVE SumTo(_, _)
SumTo(f, n) == IF n = 0 THEN 0 ELSE f[n] + SumTo(f, n - 1)

Sum(f) == SumTo(f, Len(f))

RECURSIVE ISqrt(_, _, _)
ISqrt(x, lo, hi) ==
    IF lo = hi THEN lo
    ELSE LET mid == (lo + hi + 1) \div 2
         IN  IF mid * mid <= x THEN ISqrt(x, mid, hi) ELSE ISqrt(x, lo, mid - 1)

Ones(n) == [i \in 1..n |-> 1]

AllZero(w) == \A i \in 1..Len(w) : w[i] = 0

(* a centroid row holding a copy of the point p *)
Row(p) == [num |-> p, den |-> 1]

NaNRow == [num |-> [j \in 1..n_features |-> 0], den |-> 0]

RECURSIVE GCDRow(_, _, _)
GCDRow(num, n, g) == IF n = 0 THEN g ELSE GCDRow(num, n - 1, GCD(g, Abs(num[n])))

(* num/den as a value: lowest terms, and the NaN row for 0/0 (line 50) *)
Divide(num, den) ==
    IF den = 0 THEN NaNRow
    ELSE LET g == GCDRow(num, Len(num), den)
         IN  [num |-> [j \in 1..Len(num) |-> num[j] \div g], den |-> den \div g]

(* ------------------------- Distance Engine ---------------------------- *)

_distance_from_point(Xs, point) ==
    [i \in 1..Len(Xs) |->
        [sq  |-> Sum([j \in 1..Len(Xs[i]) |->
                        (Xs[i][j] * point.den - point.num[j])
                      * (Xs[i][j] * point.den - point.num[j])]),
         den |-> point.den]]

_distance_from_points(Xs, points) ==
    [i \in 1..Len(Xs) |->
        [m \in 1..Len(points) |-> _distance_from_point(Xs, points[m])[i]]]

DistNaN(a) == a.den = 0

(* a < b on two distances that are not NaN *)
Less(a, b) == a.sq * b.den * b.den < b.sq * a.den * a.den

(* np.minimum on two distances *)
Minimum(a, b) == IF Less(b, a) THEN b ELSE a

(* the distance as a fixed-point number, for the sums of line 90 *)
Sqrt(a) == ISqrt(a.sq * SqrtScale * SqrtScale, 0, 46340) \div a.den

(* argmin counting the columns from 1 *)
argmin_one_based(row) ==
    CHOOSE m \in 1..Len(row) :
        /\ \A l \in 1..Len(row) : ~(row[l].sq * row[m].den * row[m].den
                                        < row[m].sq * row[l].den * row[l].den)
        /\ \A l \in 1..(m - 1) : row[m].sq * row[l].den * row[l].den
                                     < row[l].sq * row[m].den * row[m].den

(* np.argmin of one row of distances: the first NaN if there is one, else
   the first minimum; 0-based *)
argmin(row) ==
    IF \E m \in 1..Len(row) : DistNaN(row[m])
    THEN (CHOOSE m \in 1..Len(row) :
             DistNaN(row[m]) /\ \A l \in 1..(m - 1) : ~DistNaN(row[l])) - 1
    ELSE (CHOOSE m \in 1..Len(row) :
             /\ \A l \in 1..Len(row) : ~Less(row[l], row[m])
             /\ \A l \in 1..(m - 1) : Less(row[m], row[l])) - 1

(* np.argmin of a vector of integers; 0-based *)
argmin_int(v) ==
    (CHOOSE m \in 1..Len(v) :
        /\ \A l \in 1..Len(v) : v[l] >= v[m]
        /\ \A l \in 1..(m - 1) : v[l] > v[m]) - 1

(* ------------------------------ Seeder -------------------------------- *)

(* 2 + int(np.log(n_clusters)), for n_clusters < 21 *)
n_local_trials(K) == 2 + (IF K < 3 THEN 0 ELSE IF K < 8 THEN 1 ELSE 2)

(* kmeans without lines 36-37 *)
kmeans_weights_as_given(w) == w

(* lines 36-37 *)
kmeans_weights(w) == IF AllZero(w) THEN Ones(Len(w)) ELSE w

(* lines 68-69 *)
seeder_weights(w) == IF AllZero(w) THEN Ones(Len(w)) ELSE w

(* distances ** alpha * weights (lines 76, 94) for alpha = 2, the default of
   line 6; the seeder's distances are distances to copies of points, so
   den = 1 and the square is exact *)
distances_alpha(distances, w) ==
    [i \in 1..Len(distances) |-> distances[i].sq * w[i]]

(* lines 79-85: the scores the candidates are drawn from; entry i over the
   sum of the entries is probabilities[i] *)
probabilities(da) == IF Sum(da) = 0 THEN Ones(Len(da)) ELSE da

(* np.cumsum, in units of 1/Sum(p) *)
cumsum(p) == [i \in 1..Len(p) |-> SumTo(p, i)]

(* np.searchsorted(p_cumsum, r), side left: the number of entries strictly
   below r, which is the first index whose entry is >= r *)
searchsorted(p_cumsum, total, r) ==
    Cardinality({i \in 1..Len(p_cumsum) : p_cumsum[i] * r.d < r.n * total})

(* lines 133-135, the uniform draws of line 134 given as rands *)
_numba_rand_choice(size, p, rands) ==
    [t \in 1..size |-> searchsorted(cumsum(p), Sum(p), rands[t])]

(* The values of np.random.rand that matter for p: the draw 0, which lands
   on index 0 as every draw inside the first step of the cumulative sum
   does, and one draw inside every later step.  All lie in [0,1). *)
Rands(p) ==
    LET c == cumsum(p)
        total == Sum(p)
    IN  {[n |-> 0, d |-> 1]}
        \cup {[n |-> 2 * c[i] - 1, d |-> 2 * total] : i \in {j \in 2..Len(p) : p[j] > 0}}

(* The state of a call before line 31. *)
Fresh ==
    [pc |-> "start", weights |-> <<>>, centroids |-> <<>>, labels |-> <<>>,
     new_labels |-> <<>>, new_centroids |-> <<>>, distances |-> <<>>, k |-> 0,
     passes |-> 0, how |-> "none"]

(* kmeans lines 34-39 and _kmeans_plusplus lines 65-76: the weight fallbacks,
   the first centroid X[first_idx] and the running distances to it.  There is
   no check of n_clusters, of the weights or of the shapes before them. *)
kmeans_enter(st, Xs, w, K, first_idx) ==
    LET c0 == Row(Xs[first_idx + 1])
    IN  [st EXCEPT !.pc = "seed",
                   !.weights = kmeans_weights(w),
                   !.centroids = [m \in 1..K |->
                                    IF m = 1 THEN c0
                                    ELSE Row([j \in 1..Len(Xs[1]) |-> 0])],
                   !.distances = _distance_from_point(Xs, c0),
                   !.k = 1]

(* line 90: for candidate c, the sum over the points of
   min(distances, distance to the candidate) *)
candidate_totals(Xs, distances, candidates) ==
    LET D == _distance_from_points(Xs, candidates)
    IN  [c \in 1..Len(candidates) |->
            Sum([i \in 1..Len(Xs) |-> Sqrt(Minimum(distances[i], D[i][c]))])]

(* _kmeans_plusplus lines 78-94, one round of the loop, the uniform draws of
   _numba_rand_choice given as rands *)
kmeans_plusplus_round(st, Xs, K, rands) ==
    LET w == seeder_weights(st.weights)
        p == probabilities(distances_alpha(st.distances, w))
        candidate_idxs == _numba_rand_choice(n_local_trials(K), p, rands)
        candidates == [t \in 1..Len(candidate_idxs) |-> Row(Xs[candidate_idxs[t] + 1])]
        best == candidates[argmin_int(candidate_totals(Xs, st.distances, candidates)) + 1]
        new_distances == _distance_from_point(Xs, best)
    IN  [st EXCEPT !.centroids[st.k + 1] = best,
                   !.distances = [i \in 1..Len(Xs) |->
                                    Minimum(st.distances[i], new_distances[i])],
                   !.k = st.k + 1]

(* line 96 and kmeans lines 39-40: the seeder returns its centroids and its
   locals are gone *)
kmeans_plusplus_return(st, Xs) ==
    [st EXCEPT !.pc = "loop", !.labels = [i \in 1..Len(Xs) |-> 0],
               !.distances = <<>>, !.k = 0]

(* ----------------------------- Optimizer ------------------------------ *)

(* line 43: np.argmin(_distance_from_points(X, centroids), axis=1) *)
Assign(Xs, centroids) ==
    LET D == _distance_from_points(Xs, centroids)
    IN  [i \in 1..Len(Xs) |-> argmin(D[i])]

Members(new_labels, k) == {i \in 1..Len(new_labels) : new_labels[i] = k}

(* the clusters that take the else branch of line 52 *)
EmptyClusters(new_labels, K) == {k \in 0..(K - 1) : Members(new_labels, k) = {}}

RECURSIVE SumOver(_, _)
SumOver(f, S) ==
    IF S = {} THEN 0
    ELSE LET i == CHOOSE x \in S : TRUE IN f[i] + SumOver(f, S \ {i})

(* line 50 without the division *)
weighted_mean_no_division(Xs, w, members) ==
    Divide([j \in 1..Len(Xs[1]) |-> SumOver([i \in 1..Len(Xs) |-> w[i] * Xs[i][j]], members)],
           1)

(* line 50 without the weights *)
weighted_mean_unweighted(Xs, w, members) ==
    Divide([j \in 1..Len(Xs[1]) |-> SumOver([i \in 1..Len(Xs) |-> Xs[i][j]], members)],
           Cardinality(members))

(* line 50: np.sum(cluster_points.T * cluster_weights, axis=1) / np.sum(cluster_weights) *)
weighted_mean(Xs, w, members) ==
    Divide([j \in 1..Len(Xs[1]) |-> SumOver([i \in 1..Len(Xs) |-> w[i] * Xs[i][j]], members)],
           SumOver(w, members))

(* lines 46-53, the np.random.randint draws of line 53 given as reseed, a
   function from the empty clusters to point indices *)
Update(Xs, w, K, new_labels, reseed) ==
    [m \in 1..K |->
        IF Members(new_labels, m - 1) # {}
        THEN weighted_mean(Xs, w, Members(new_labels, m - 1))
        ELSE Row(Xs[(IF (m - 1) \in DOMAIN reseed THEN reseed[m - 1] ELSE 0) + 1])]

(* one entry of np.allclose(a, b): |a - b| <= atol + rtol * |b| with
   atol = 1e-8, rtol = 1e-5, and False when either is NaN *)
isclose(an, ad, bn, bd) ==
    /\ ad # 0
    /\ bd # 0
    /\ Abs(an * bd - bn * ad) <= (ad * bd + RtolOverAtol * Abs(bn) * ad) \div AtolInv

(* line 55 *)
allclose(a, b) ==
    \A m \in 1..Len(a) : \A j \in 1..Len(a[m].num) :
        isclose(a[m].num[j], a[m].den, b[m].num[j], b[m].den)

(* one pass of the loop without line 58 *)
kmeans_pass_stale_labels(st, Xs, K, reseed) ==
    LET new_labels == Assign(Xs, st.centroids)
        new_centroids == Update(Xs, st.weights, K, new_labels, reseed)
    IN  IF allclose(st.centroids, new_centroids)
        THEN [st EXCEPT !.pc = "done", !.how = "converged",
                        !.new_labels = new_labels,
                        !.new_centroids = new_centroids,
                        !.passes = st.passes + 1]
        ELSE [st EXCEPT !.centroids = new_centroids,
                        !.new_labels = new_labels,
                        !.new_centroids = new_centroids,
                        !.passes = st.passes + 1]

(* lines 43-58, one pass of the loop; after the break of line 56 the call
   returns at line 60 with centroids and labels as they were *)
kmeans_pass(st, Xs, K, reseed) ==
    LET new_labels == Assign(Xs, st.centroids)
        new_centroids == Update(Xs, st.weights, K, new_labels, reseed)
    IN  IF allclose(st.centroids, new_centroids)
        THEN [st EXCEPT !.pc = "done", !.how = "converged",
                        !.new_labels = new_labels,
                        !.new_centroids = new_centroids,
                        !.passes = st.passes + 1]
        ELSE [st EXCEPT !.centroids = new_centroids,
                        !.labels = new_labels,
                        !.new_labels = new_labels,
                        !.new_centroids = new_centroids,
                        !.passes = st.passes + 1]

(* line 42 with the range exhausted, then line 60 *)
kmeans_return(st) == [st EXCEPT !.pc = "done", !.how = "cap"]

(* ------------------------------ the call ------------------------------ *)

(* no call of the sampler on its own *)
NoSample == [probabilities |-> <<>>, rands |-> <<>>, candidate_idxs |-> <<>>]

(* the weight vector of the twin call *)
twin_weights == IF AllZero(weights) THEN Ones(Len(weights)) ELSE weights

Min(a, b) == IF a < b THEN a ELSE b

(* The calls: n points on a line, the first at the origin, any weights that
   are not negative, and any n_clusters from 1 to n + 1 (n + 1 is more
   clusters than points). *)
Init ==
    /\ \E n \in 1..MaxN :
          /\ X \in {x \in [1..n -> [1..1 -> 0..MaxCoord]] : x[1][1] = 0}
          /\ weights \in [1..n -> 0..MaxWeight]
          /\ n_clusters \in 1..Min(n + 1, MaxK)
    /\ max_iter \in 0..MaxIter
    /\ run = Fresh
    /\ twin = Fresh
    /\ sample = NoSample

(* the twin takes the step the run takes; on a weight vector that is not
   all zero the twin is the run itself *)
Follow(next) ==
    twin' = IF ~AllZero(weights) THEN run'
            ELSE IF twin.pc = run.pc THEN next ELSE twin

Enter ==
    /\ run.pc = "start"
    /\ \E first_idx \in 0..(n_samples - 1) :
          /\ run' = kmeans_enter(run, X, weights, n_clusters, first_idx)
          /\ Follow(kmeans_enter(twin, X, twin_weights, n_clusters, first_idx))
    /\ UNCHANGED <<X, weights, n_clusters, max_iter, sample>>

SeedRound ==
    /\ run.pc = "seed"
    /\ run.k < n_clusters
    /\ LET p == probabilities(distances_alpha(run.distances, seeder_weights(run.weights)))
       IN  \E rands \in [1..n_local_trials(n_clusters) -> Rands(p)] :
             /\ run' = kmeans_plusplus_round(run, X, n_clusters, rands)
             /\ Follow(kmeans_plusplus_round(twin, X, n_clusters, rands))
    /\ UNCHANGED <<X, weights, n_clusters, max_iter, sample>>

SeedReturn ==
    /\ run.pc = "seed"
    /\ run.k = n_clusters
    /\ run' = kmeans_plusplus_return(run, X)
    /\ Follow(kmeans_plusplus_return(twin, X))
    /\ UNCHANGED <<X, weights, n_clusters, max_iter, sample>>

Pass ==
    /\ run.pc = "loop"
    /\ run.passes < max_iter
    /\ \E reseed \in [EmptyClusters(Assign(X, run.centroids), n_clusters)
                         -> 0..(n_samples - 1)] :
          /\ run' = kmeans_pass(run, X, n_clusters, reseed)
          /\ Follow(kmeans_pass(twin, X, n_clusters, reseed))
    /\ UNCHANGED <<X, weights, n_clusters, max_iter, sample>>

Return ==
    /\ run.pc = "loop"
    /\ run.passes = max_iter
    /\ run' = kmeans_return(run)
    /\ Follow(kmeans_return(twin))
    /\ UNCHANGED <<X, weights, n_clusters, max_iter, sample>>

Next ==
    \/ Enter
    \/ SeedRound
    \/ SeedReturn
    \/ Pass
    \/ Return

Spec == Init /\ [][Next]_vars

(* The scenario of four points on the corners of a 10 by 1 rectangle. *)
ScenarioX == <<(<<0, 0>>), (<<0, 1>>), (<<10, 0>>), (<<10, 1>>)>>

InitScenario ==
    /\ X = ScenarioX
    /\ weights = Ones(4)
    /\ n_clusters = 2
    /\ max_iter \in 1..(MaxIter + 2)
    /\ run = Fresh
    /\ twin = Fresh
    /\ sample = NoSample

SpecScenario == InitScenario /\ [][Next]_vars

(* ------------------- the sampler as a pure function ------------------- *)

(* A call of _numba_rand_choice: a probability vector, given by scores that
   are not all zero (entry over sum), and the size of a seeding round. *)
InitChoice ==
    /\ X = <<(<<0>>)>>
    /\ weights = <<1>>
    /\ n_clusters \in 1..MaxK
    /\ max_iter = 0
    /\ run = Fresh
    /\ twin = Fresh
    /\ \E n \in 1..MaxN :
          \E p \in {q \in [1..n -> 0..MaxScore] : Sum(q) > 0} :
             sample = [NoSample EXCEPT !.probabilities = p]

Choice ==
    /\ sample.probabilities # <<>>
    /\ sample.candidate_idxs = <<>>
    /\ \E rands \in [1..n_local_trials(n_clusters) -> Rands(sample.probabilities)] :
          sample' = [sample EXCEPT
                        !.rands = rands,
                        !.candidate_idxs =
                           _numba_rand_choice(n_local_trials(n_clusters),
                                              sample.probabilities, rands)]
    /\ UNCHANGED <<X, weights, n_clusters, max_iter, run, twin>>

NextChoice == Choice

SpecChoice == InitChoice /\ [][NextChoice]_vars

(* ------------------------------ claims -------------------------------- *)

(* the input contract of the call *)
ValidCall ==
    /\ n_samples >= 1
    /\ n_clusters >= 1
    /\ n_clusters <= n_samples
    /\ Len(weights) = n_samples
    /\ \A i \in 1..Len(weights) : weights[i] >= 0

Returned == run.pc = "done"

(* C1: when the call stops because the convergence check succeeds in pass t,
   the returned centroids are those of the Update of pass t and the returned
   labels are those of the Assign of pass t. *)
C1_ReturnsConvergedPass ==
    (Returned /\ run.how = "converged") =>
        /\ run.centroids = run.new_centroids
        /\ run.labels = run.new_labels

(* C2: a call that violates the input contract ends in an error before the
   seeder draws a random number, and never returns centroids and labels. *)
C2_InvalidFailsFast == ~ValidCall => run.pc \in {"start", "error"}

(* C3: for a valid call every Update divides by a strictly positive sum of
   weights, so every component of every centroid is a defined number. *)
C3_CentroidsDefined ==
    ValidCall =>
        /\ \A m \in 1..Len(run.new_centroids) : run.new_centroids[m].den > 0
        /\ \A m \in 1..Len(run.centroids) : run.centroids[m].den > 0

ByX(labels) ==
    /\ labels[1] = labels[2]
    /\ labels[3] = labels[4]
    /\ labels[1] # labels[3]

ByY(labels) ==
    /\ labels[1] = labels[3]
    /\ labels[2] = labels[4]
    /\ labels[1] # labels[2]

CentroidSet(c) == {c[m] : m \in 1..Len(c)}

(* the rows (0, 0.5) and (10, 0.5) *)
CentroidsByX == {[num |-> <<0, 1>>, den |-> 2], [num |-> <<20, 1>>, den |-> 2]}

(* the rows (5, 0) and (5, 1) *)
CentroidsByY == {[num |-> <<5, 0>>, den |-> 1], [num |-> <<5, 1>>, den |-> 1]}

(* C4 as stated: on the four corner points with unit weights and two
   clusters, every outcome of the draws converges to the partition
   {(0,0),(0,1)} / {(10,0),(10,1)} with centroids (0,0.5) and (10,0.5). *)
C4_AlwaysByX ==
    (Returned /\ run.how = "converged") =>
        /\ ByX(run.labels)
        /\ CentroidSet(run.centroids) = CentroidsByX

(* C4 as amended: every outcome of the draws converges either to that
   partition and those centroids, or to {(0,0),(10,0)} / {(0,1),(10,1)} with
   centroids (5,0) and (5,1). *)
C4_ByXOrByY ==
    (Returned /\ run.how = "converged") =>
        \/ ByX(run.labels) /\ CentroidSet(run.centroids) = CentroidsByX
        \/ ByY(run.labels) /\ CentroidSet(run.centroids) = CentroidsByY

C4_Witness ==
    /\ Returned
    /\ run.how = "converged"
    /\ ByY(run.labels)
    /\ CentroidSet(run.centroids) = CentroidsByY

(* sum of weight * point over sum of weight, all-zero weights taken as ones *)
MeanOfAll ==
    LET w == IF AllZero(weights) THEN Ones(n_samples) ELSE weights
    IN  Divide([j \in 1..n_features |-> Sum([i \in 1..n_samples |-> w[i] * X[i][j]])],
               Sum(w))

C6_ZeroWeightsAsOnes == AllZero(weights) => twin = run

C6_Witness ==
    /\ AllZero(weights)
    /\ Returned
    /\ n_clusters >= 2
    /\ run.passes >= 1

(* C7: for a valid call, at every point of the run and at return, the
   centroid set has n_clusters rows of n_features columns and every label is
   an integer in [0, n_clusters). *)
C7_Shapes ==
    ValidCall =>
        /\ \A c \in {run.centroids, run.new_centroids} :
              c # <<>> =>
                 /\ Len(c) = n_clusters
                 /\ \A m \in 1..Len(c) : Len(c[m].num) = n_features
        /\ \A l \in {run.labels, run.new_labels} :
              l # <<>> =>
                 /\ Len(l) = n_samples
                 /\ \A i \in 1..Len(l) : l[i] \in 0..(n_clusters - 1)

C7_Witness ==
    /\ ValidCall
    /\ Returned
    /\ run.passes >= 1
    /\ n_clusters >= 2
    /\ \E i \in 1..n_samples : run.labels[i] = n_clusters - 1

(* how far the call has come: the phase, then the seeding round, then the pass *)
Rank(st) ==
    CASE st.pc = "start" -> 0
      [] st.pc = "seed"  -> st.k
      [] st.pc = "loop"  -> MaxK + 2 + st.passes
      [] st.pc = "done"  -> MaxK + MaxIter + 6

(* the guard of Enter, of SeedRound or SeedReturn, or of Pass or Return holds *)
CanStep ==
    \/ run.pc = "start" /\ n_samples >= 1
    \/ run.pc = "seed" /\ run.k <= n_clusters
    \/ run.pc = "loop" /\ run.passes <= max_iter

(* C8: the call always terminates, after at most max_iter passes: it never
   makes more than max_iter passes, it is never stuck before the return,
   every step brings it closer to the return, and when no pass meets the
   convergence check it returns the centroids of the last Update with the
   labels of the last Assign. *)
C8_TerminatesAtCap ==
    /\ [](/\ run.passes <= max_iter
          /\ ~Returned => CanStep
          /\ (Returned /\ run.how = "cap" /\ max_iter >= 1) =>
                /\ run.passes = max_iter
                /\ run.centroids = run.new_centroids
                /\ run.labels = run.new_labels)
    /\ [][Rank(run') > Rank(run)]_vars

C8_Witness ==
    /\ Returned
    /\ run.how = "cap"
    /\ max_iter >= 2
    /\ run.passes = max_iter
    /\ EmptyClusters(run.new_labels, n_clusters) # {}

(* C9: whenever the call returns after at least one pass, the returned
   labels are the Assign result for the returned centroids. *)
C9_LabelsOfReturnedCentroids ==
    (Returned /\ max_iter >= 1) => run.labels = Assign(X, run.centroids)

(* C10: every index the sampler returns lies in [0, N) and has strictly
   positive probability. *)
C10_DrawnPositive ==
    \A t \in 1..Len(sample.candidate_idxs) :
        /\ sample.candidate_idxs[t] \in 0..(Len(sample.probabilities) - 1)
        /\ sample.probabilities[sample.candidate_idxs[t] + 1] > 0

====
